---- MODULE Spec2Model ----
\* Verification model of danpasecinic/news-aggregator: the article store
\* (src/news_aggregator/storage/db.py) with its title normaliser, near-duplicate
\* detector, retention sweep and queries.
\*
\* Text is modelled as a sequence of one-character strings, so that splitting,
\* joining, stripping and comparing text are computed, not assumed.
\* Clock values are whole hours.  A nullable column or field is <<>> (NULL / None)
\* or <<v>>.
EXTENDS Integers, Sequences, FiniteSets, TLC

VARIABLES
    articles,   \* the rows of table `articles`, in rowid (insertion) order
    now,        \* the UTC wall clock, in hours
    tz,         \* the host's UTC offset in hours (datetime.now() is local time)
    last,       \* the last Database call: [op, value (what it returned)]
    token,      \* TelegramBot.token is set (truthy)
    channel_id, \* TelegramBot.channel_id is set (truthy)
    pc,         \* where the delivery coroutine stands
    caller,     \* who awaits send_article: "send_batch" or "send_pending"
    batch,      \* send_batch's `articles` argument
    index,      \* send_batch's loop variable `i` (0-based)
    delay,      \* send_batch's `delay`, in ticks
    sent_count, \* send_batch's `sent_count`
    current,    \* send_article's `article` argument
    attempt,    \* send_article's loop variable `attempt`
    success,    \* what the last send_article call returned
    slept,      \* the last asyncio.sleep: [by, after, ticks]
    waits,      \* how many times send_batch has slept in this call
    tried,      \* bot.send_message calls for `current`: [primary, fallback]
    attempted,  \* the records send_article was called for in this batch, in order
    saving,     \* the scraped records process_articles has still to save
    unsent,     \* send_pending's `unsent`
    position,   \* how many records of `unsent` send_pending is done with
    sent_now,   \* send_pending's `sent`
    failed,     \* the ids of the stored rows whose last delivery by send_pending failed
    delivered,  \* the ids of the records a bot.send_message call of a cycle has delivered
    fetches,    \* scrape_all's tasks, one per scraper: [status, result]
    loop,       \* where run_scheduler stands
    cycle_count \* run_scheduler's cycle_count

\* The variables of the store.
dbvars == <<articles, now, tz, last>>

\* The variables of scrape_all and run_scheduler.
sched_vars == <<fetches, loop, cycle_count>>

\* The variables of a cycle.
cycle_vars == <<saving, unsent, position, sent_now, failed, delivered, sched_vars>>

\* The variables of the delivery side.
delivery_vars ==
    <<token, channel_id, pc, caller, batch, index, delay, sent_count, current,
      attempt, success, slept, waits, tried, attempted, cycle_vars>>

vars == <<dbvars, delivery_vars>>

\* ---------------------------------------------------------------- bounds

\* How many hours the clock may advance from Epoch.
MaxElapsed == 36

\* The clock advances in steps of this many hours.
ClockSteps == {6}

\* UTC offsets of the hosts considered: Honolulu, UTC, Kyiv.
TZOffsets == {-10, 0, 2}

\* ------------------------------------------------------------ constants

SIMILARITY_THRESHOLD == 75

\* Default of find_similar's `hours` parameter.
DefaultHours == 24

\* settings.storage.keep_days
KeepDays == 7

\* timedelta(days = 1) in hours.
HoursPerDay == 24

\* The clock starts late enough that every cutoff is a date of the common era.
Epoch == (KeepDays + 1) * HoursPerDay

NULL == <<>>

Some(v) == <<v>>

\* ----------------------------------------------------------------- text

UpperLetters ==
    <<"A","B","C","D","E","F","G","H","I","J","K","L","M",
      "N","O","P","Q","R","S","T","U","V","W","X","Y","Z">>

LowerLetters ==
    <<"a","b","c","d","e","f","g","h","i","j","k","l","m",
      "n","o","p","q","r","s","t","u","v","w","x","y","z">>

\* The characters of the model in code-point order.
CodePoints == <<" ", "!", ",">> \o UpperLetters \o LowerLetters

Range(s) == {s[i] : i \in 1..Len(s)}

IndexOf(seq, c) == CHOOSE i \in 1..Len(seq) : seq[i] = c

Ord(c) == IndexOf(CodePoints, c)

\* \s of the regular expressions, and the whitespace of str.split / str.strip.
IsSpace(c) == c = " "

\* \w of the regular expressions.
IsWord(c) == c \in Range(UpperLetters) \cup Range(LowerLetters)

\* str.lower()
LowerChar(c) ==
    IF c \in Range(UpperLetters) THEN LowerLetters[IndexOf(UpperLetters, c)] ELSE c

Lower(s) == [i \in 1..Len(s) |-> LowerChar(s[i])]

\* re.sub(r"[^\w\s]", "", s)
StripPunctuation(s) == SelectSeq(s, LAMBDA c : IsWord(c) \/ IsSpace(c))

RECURSIVE CollapseFrom(_, _, _)
CollapseFrom(s, i, acc) ==
    IF i > Len(s) THEN acc
    ELSE IF IsSpace(s[i])
         THEN IF i > 1 /\ IsSpace(s[i - 1])
              THEN CollapseFrom(s, i + 1, acc)
              ELSE CollapseFrom(s, i + 1, Append(acc, " "))
         ELSE CollapseFrom(s, i + 1, Append(acc, s[i]))

\* re.sub(r"\s+", " ", s)
CollapseSpaces(s) == CollapseFrom(s, 1, <<>>)

RECURSIVE LStrip(_)
LStrip(s) == IF s # <<>> /\ IsSpace(Head(s)) THEN LStrip(Tail(s)) ELSE s

RECURSIVE RStrip(_)
RStrip(s) ==
    IF s # <<>> /\ IsSpace(s[Len(s)]) THEN RStrip(SubSeq(s, 1, Len(s) - 1)) ELSE s

\* str.strip()
Strip(s) == RStrip(LStrip(s))

RECURSIVE SplitFrom(_, _, _, _)
SplitFrom(s, i, word, acc) ==
    IF i > Len(s) THEN (IF word = <<>> THEN acc ELSE Append(acc, word))
    ELSE IF IsSpace(s[i])
         THEN SplitFrom(s, i + 1, <<>>, IF word = <<>> THEN acc ELSE Append(acc, word))
         ELSE SplitFrom(s, i + 1, Append(word, s[i]), acc)

\* str.split(): the words between runs of whitespace.
Split(s) == SplitFrom(s, 1, <<>>, <<>>)

RECURSIVE SplitOnFrom(_, _, _, _, _)
SplitOnFrom(s, sep, i, piece, acc) ==
    IF i > Len(s) THEN Append(acc, piece)
    ELSE IF s[i] = sep
         THEN SplitOnFrom(s, sep, i + 1, <<>>, Append(acc, piece))
         ELSE SplitOnFrom(s, sep, i + 1, Append(piece, s[i]), acc)

\* str.split(sep): the pieces between separators, empty pieces included.
SplitOn(s, sep) == SplitOnFrom(s, sep, 1, <<>>, <<>>)

RECURSIVE Join(_, _)
\* sep.join(words)
Join(words, sep) ==
    IF words = <<>> THEN <<>>
    ELSE IF Len(words) = 1 THEN words[1]
    ELSE words[1] \o sep \o Join(Tail(words), sep)

RECURSIVE StrLess(_, _)
\* s < t for Python strings: by code point, a proper prefix first.
StrLess(s, t) ==
    IF t = <<>> THEN FALSE
    ELSE IF s = <<>> THEN TRUE
    ELSE IF Head(s) # Head(t) THEN Ord(Head(s)) < Ord(Head(t))
    ELSE StrLess(Tail(s), Tail(t))

RECURSIVE InsertSorted(_, _)
InsertSorted(w, sorted) ==
    IF sorted = <<>> THEN <<w>>
    ELSE IF StrLess(w, Head(sorted)) THEN <<w>> \o sorted
    ELSE <<Head(sorted)>> \o InsertSorted(w, Tail(sorted))

RECURSIVE Sorted(_)
\* sorted(words)
Sorted(words) ==
    IF words = <<>> THEN <<>> ELSE InsertSorted(Head(words), Sorted(Tail(words)))

\* ------------------------------------------------------ normalize_title

STOPWORDS ==
    { <<"t","h","e">>, <<"a">>, <<"a","n">>, <<"i","n">>, <<"o","n">>, <<"a","t">>,
      <<"t","o">>, <<"f","o","r">>, <<"o","f">>, <<"a","n","d">>, <<"i","s">>,
      <<"a","r","e">>, <<"w","a","s">>, <<"w","e","r","e">> }

normalize_title(title) ==
    LET lowered   == Lower(title)
        stripped  == StripPunctuation(lowered)
        collapsed == Strip(CollapseSpaces(stripped))
        words     == SelectSeq(Split(collapsed), LAMBDA w : w \notin STOPWORDS)
    IN  Join(words, <<" ">>)

\* --------------------------------------------- rapidfuzz token_sort_ratio

Max(a, b) == IF a >= b THEN a ELSE b

RECURSIVE LcsRow(_, _, _, _, _)
\* One row of the longest-common-subsequence table: prev is the row above
\* (columns 0..Len(b) at positions 1..Len(b)+1), c the character of this row.
\* (Each row is built before it is passed on: the test on its length forces it.)
LcsRow(prev, c, b, j, acc) ==
    IF j > Len(b) THEN acc
    ELSE LET v    == IF c = b[j] THEN prev[j] + 1 ELSE Max(prev[j + 1], acc[j])
             next == Append(acc, v)
         IN  IF Len(next) = j + 1 THEN LcsRow(prev, c, b, j + 1, next) ELSE <<>>

RECURSIVE LcsRows(_, _, _, _)
LcsRows(a, b, i, prev) ==
    IF i > Len(a) THEN prev[Len(b) + 1]
    ELSE LET row == LcsRow(prev, a[i], b, 1, <<0>>)
         IN  IF Len(row) = Len(b) + 1 THEN LcsRows(a, b, i + 1, row) ELSE 0

LcsLength(a, b) == LcsRows(a, b, 1, [j \in 1..(Len(b) + 1) |-> 0])

\* fuzz.ratio: 100 * (1 - indel_distance / (len1 + len2)), the whole percents of it
\* (s >= 75 is decided exactly by the whole percents).
Ratio(a, b) ==
    IF Len(a) + Len(b) = 0 THEN 100
    ELSE (200 * LcsLength(a, b)) \div (Len(a) + Len(b))

\* fuzz.token_sort_ratio: the ratio of the two strings with their words sorted.
token_sort_ratio(s1, s2) ==
    Ratio(Join(Sorted(Split(s1)), <<" ">>), Join(Sorted(Split(s2)), <<" ">>))

\* ------------------------------------------------------------- datetimes

\* A clock value (hours) as a date and an hour of that date.
DateOf(t) == t \div HoursPerDay

HourOf(t) == t % HoursPerDay

\* SQLite's CURRENT_TIMESTAMP: the UTC time as text "YYYY-MM-DD HH:MM:SS",
\* here <<date, separator, hour>>.
CURRENT_TIMESTAMP == <<DateOf(now), " ", HourOf(now)>>

\* datetime.now(): the host's local wall clock, naive.
DatetimeNow == now + tz

\* datetime.isoformat() of a naive datetime: "YYYY-MM-DDTHH:MM:SS.ffffff".
IsoFormat(t) == <<DateOf(t), "T", HourOf(t)>>

\* text1 < text2 for two datetime texts, as SQLite compares TEXT: character by
\* character, so the date first, then the separator (" " or "T"), then the time.
TextLess(t1, t2) ==
    \/ t1[1] < t2[1]
    \/ t1[1] = t2[1] /\ Ord(t1[2]) < Ord(t2[2])
    \/ t1[1] = t2[1] /\ t1[2] = t2[2] /\ t1[3] < t2[3]

\* An article's timestamp is None or an aware datetime [wall, off]: the wall-clock
\* hour it shows and its UTC offset (off >= 0); the instant it denotes is wall - off.
Instant(dt) == dt.wall - dt.off

\* datetime.isoformat() of an aware datetime: "YYYY-MM-DDTHH:MM:SS+HH:MM", here
\* <<wall clock, offset suffix>>.
IsoFormatAware(dt) == <<dt.wall, dt.off>>

\* datetime.fromisoformat()
FromIsoFormat(text) == [wall |-> text[1], off |-> text[2]]

\* text1 < text2 for two such texts: the wall clock first, then the suffix.
AwareTextLess(t1, t2) ==
    \/ t1[1] < t2[1]
    \/ t1[1] = t2[1] /\ t1[2] < t2[2]

\* ------------------------------------------------------- scraped articles

Pravda == <<"P","r","a","v","d","a">>

BBC == <<"B","B","C">>

Reuters == <<"R","e","u","t","e","r","s">>

TitleStrikes ==
    <<"U","k","r","a","i","n","e"," ","S","t","r","i","k","e","s"," ",
      "T","a","r","g","e","t">>

TitleStrikesLower ==
    <<"u","k","r","a","i","n","e"," ","s","t","r","i","k","e","s"," ",
      "t","a","r","g","e","t","!","!">>

TitleTargetOf ==
    <<"T","a","r","g","e","t"," ","o","f"," ","s","t","r","i","k","e","s"," ",
      "i","n"," ","U","k","r","a","i","n","e">>

TitleFox ==
    <<"T","h","e"," ","Q","u","i","c","k",","," ","B","r","o","w","n"," ",
      "F","o","x","!">>

TitleAlphaBravo ==
    <<"A","l","p","h","a"," ","B","r","a","v","o"," ","U","k","r","a","i","n","e"," ",
      "S","t","r","i","k","e","s"," ","T","a","r","g","e","t">>

TitleZuluYes ==
    <<"U","k","r","a","i","n","e"," ","S","t","r","i","k","e","s"," ",
      "T","a","r","g","e","t"," ","Z","u","l","u"," ","Y","e","s">>

\* A headline that advertises a channel.
TitlePromo == <<"J","o","i","n"," ","T","e","l","e","g","r","a","m">>

\* class Article
Article(title, url, source, timestamp) ==
    [title |-> title, url |-> url, source |-> source, timestamp |-> timestamp,
     content |-> NULL, other_sources |-> <<>>]

\* The records the scrapers hand to the store: three reports of one event (two of
\* them by the same source under different URLs), and a re-scrape of the first
\* URL under an unrelated title.
Scraped ==
    { Article(TitleStrikes, "u1", Pravda, Some([wall |-> 10, off |-> 2])),
      Article(TitleStrikesLower, "u2", BBC, NULL),
      Article(TitleTargetOf, "u3", BBC, Some([wall |-> 9, off |-> 0])),
      Article(TitleFox, "u1", Reuters, NULL) }

\* Two longer reports of the same event, each close to the short title and far
\* from the other, and a promotional record.
Reports ==
    { Article(TitleAlphaBravo, "u4", Reuters, NULL),
      Article(TitleZuluYes, "u5", BBC, NULL) }

Promo == Article(TitlePromo, "u6", Pravda, NULL)

\* Every title a source hands over.
Titles == {a.title : a \in Scraped \cup Reports \cup {Promo}}

\* A function with its values computed once, when it is defined (a comparison
\* makes the model checker tabulate it).
Tabulated(f) == IF f = f THEN f ELSE f

\* Article.id: hashlib.md5(url).hexdigest(), one digest per URL.
ArticleId(article) == <<"md5", article.url>>

\* normalize_title of every scraped title, computed once.
NormalizedTitles ==
    Tabulated([t \in Titles |-> normalize_title(t)])

\* token_sort_ratio of every pair of normalized titles, computed once.
Similarity ==
    Tabulated([p \in {NormalizedTitles[t] : t \in DOMAIN NormalizedTitles}
                       \X {NormalizedTitles[t] : t \in DOMAIN NormalizedTitles}
                 |-> token_sort_ratio(p[1], p[2])])

\* ------------------------------------------------------------- Database

\* The record of a call that has returned.
Returned(op, value) == [op |-> op, value |-> value]

\* The last call was save_article and returned this.
SaveReturned(value) == last.op = "save_article" /\ last.value = value

\* A row of table `articles` as INSERT builds it: created_at takes its default
\* CURRENT_TIMESTAMP, other_sources its default NULL.
NewRow(article, normalized, duplicate_of, sent) ==
    [id               |-> ArticleId(article),
     title            |-> article.title,
     normalized_title |-> normalized,
     url              |-> article.url,
     source           |-> article.source,
     timestamp        |-> IF article.timestamp # NULL
                          THEN Some(IsoFormatAware(article.timestamp[1]))
                          ELSE NULL,
     content          |-> article.content,
     created_at       |-> CURRENT_TIMESTAMP,
     sent             |-> sent,
     duplicate_of     |-> duplicate_of,
     other_sources    |-> NULL]

\* article_exists that finds nothing.
article_exists_mutant(article) == FALSE

\* SELECT 1 FROM articles WHERE id = ?
article_exists(article) ==
    \E i \in 1..Len(articles) : articles[i].id = ArticleId(article)

\* The rows find_similar's query returns, in scan order:
\* WHERE created_at > cutoff.isoformat() AND duplicate_of IS NULL.
WindowRows(hours) ==
    LET cutoff == DatetimeNow - hours
    IN  SelectSeq(articles,
                  LAMBDA row : /\ TextLess(IsoFormat(cutoff), row.created_at)
                               /\ row.duplicate_of = NULL)

\* similarity of the candidate's normalized title and a row's.
RowSimilarity(normalized, row) ==
    LET existing_normalized ==
            IF row.normalized_title # <<>> THEN row.normalized_title
            ELSE NormalizedTitles[row.title]
    IN  Similarity[<<normalized, existing_normalized>>]

\* find_similar that scans the whole window and keeps the best score.
find_similar_mutant(article, hours) ==
    LET normalized == NormalizedTitles[article.title]
        rows       == WindowRows(hours)
        hits       == {i \in 1..Len(rows) :
                         RowSimilarity(normalized, rows[i]) >= SIMILARITY_THRESHOLD}
    IN  IF hits = {} THEN NULL
        ELSE LET best == CHOOSE i \in hits : \A j \in hits :
                            RowSimilarity(normalized, rows[i])
                                >= RowSimilarity(normalized, rows[j])
             IN  Some(<<rows[best].id, RowSimilarity(normalized, rows[best])>>)

\* find_similar: Some(<<id, similarity>>) of the first row of the window that
\* reaches the threshold, or NULL (None).
find_similar(article, hours) ==
    LET normalized == NormalizedTitles[article.title]
        rows       == WindowRows(hours)
        hits       == {i \in 1..Len(rows) :
                         RowSimilarity(normalized, rows[i]) >= SIMILARITY_THRESHOLD}
    IN  IF hits = {} THEN NULL
        ELSE LET first == CHOOSE i \in hits : \A j \in hits : i <= j
             IN  Some(<<rows[first].id, RowSimilarity(normalized, rows[first])>>)

\* The other_sources text save_article writes to the original row.
NewSources(row_other_sources, source) ==
    LET existing_sources ==
            IF row_other_sources # NULL THEN row_other_sources[1] ELSE <<>>
    IN  IF existing_sources # <<>> THEN existing_sources \o <<",">> \o source
        ELSE source

\* SaveDuplicate that inserts the linked row unsent.
SaveDuplicate_mutant(article, normalized, original_id) ==
    Append(articles, NewRow(article, normalized, Some(original_id), FALSE))

\* The table after save_article's duplicate branch: the INSERT of the linked row
\* (sent = TRUE), then the UPDATE of the original row's other_sources.
SaveDuplicate(article, normalized, original_id) ==
    LET inserted == Append(articles, NewRow(article, normalized, Some(original_id), TRUE))
        found    == {i \in 1..Len(inserted) : inserted[i].id = original_id}
        new_sources ==
            IF found = {} THEN article.source
            ELSE NewSources(inserted[CHOOSE i \in found : TRUE].other_sources,
                            article.source)
    IN  [i \in 1..Len(inserted) |->
            IF inserted[i].id = original_id
            THEN [inserted[i] EXCEPT !.other_sources = Some(new_sources)]
            ELSE inserted[i]]

\* The table after save_article's other branch: the INSERT of a canonical row.
SaveCanonical(article, normalized) ==
    Append(articles, NewRow(article, normalized, NULL, FALSE))

\* save_article: what it does to the table and what it returns.
save_article(article) ==
    IF article_exists(article)
    THEN /\ articles' = articles
         /\ last' = Returned("save_article", FALSE)
    ELSE LET normalized == NormalizedTitles[article.title]
             similar    == find_similar(article, DefaultHours)
         IN  /\ articles' = IF similar # NULL
                            THEN SaveDuplicate(article, normalized, similar[1][1])
                            ELSE SaveCanonical(article, normalized)
             /\ last' = Returned("save_article", similar = NULL)

\* The record of a call that has raised.
Raised(op) == [op |-> op \o " raised", value |-> NULL]

\* Where a storage failure (sqlite3.Error) may strike save_article: in one of its
\* two queries, in a statement of its transaction, or in the commit.
SaveFaults == {"article_exists", "find_similar", "INSERT", "SELECT", "UPDATE", "commit"}

\* The statements of the duplicate branch only.
DuplicateOnly == {"SELECT", "UPDATE"}

\* The table as save_article's connection sees it when the fault strikes: the
\* statements executed so far, not committed.
Uncommitted(article, fault) ==
    LET normalized == NormalizedTitles[article.title]
        similar    == find_similar(article, DefaultHours)
    IN  CASE fault \in {"article_exists", "find_similar", "INSERT"} -> articles
          [] fault \in DuplicateOnly ->
                Append(articles, NewRow(article, normalized, Some(similar[1][1]), TRUE))
          [] fault = "commit" ->
                IF similar # NULL
                THEN SaveDuplicate(article, normalized, similar[1][1])
                ELSE SaveCanonical(article, normalized)

\* Rollback that keeps what the statements did (a connection in autocommit mode).
Rollback_mutant(committed, working) == working

\* `with sqlite3.connect(...) as conn` left by an exception: conn.rollback(), the
\* table is what was committed last.
Rollback(committed, working) == committed

\* The fault can strike this call: save_article gets as far as the statement.
CanFail(article, fault) ==
    /\ fault # "article_exists" => ~article_exists(article)
    /\ fault \in DuplicateOnly => find_similar(article, DefaultHours) # NULL

\* save_article raising: what it leaves of the table.
save_article_raises(article, fault) ==
    /\ CanFail(article, fault)
    /\ articles' = Rollback(articles, Uncommitted(article, fault))
    /\ last' = Raised("save_article")

\* find_similar, called on its own with the default window.
FindSimilar(article) ==
    /\ last' = Returned("find_similar", find_similar(article, DefaultHours))
    /\ UNCHANGED <<articles, now, tz, delivery_vars>>

\* save_article, called on its own.
SaveArticle(article) ==
    /\ save_article(article)
    /\ UNCHANGED <<now, tz, delivery_vars>>

\* SetSent that flips the flag of the row.
SetSent_flipped(id) ==
    [i \in 1..Len(articles) |->
        IF articles[i].id = id THEN [articles[i] EXCEPT !.sent = ~articles[i].sent]
        ELSE articles[i]]

\* SetSent without its WHERE clause.
SetSent_mutant(id) ==
    [i \in 1..Len(articles) |-> [articles[i] EXCEPT !.sent = TRUE]]

\* The table after UPDATE articles SET sent = TRUE WHERE id = ?
SetSent(id) ==
    [i \in 1..Len(articles) |->
        IF articles[i].id = id THEN [articles[i] EXCEPT !.sent = TRUE]
        ELSE articles[i]]

\* mark_sent: what it does to the table.
mark_sent(article) ==
    /\ articles' = SetSent(ArticleId(article))
    /\ last' = Returned("mark_sent", NULL)

\* mark_sent, called on its own.
MarkSent(article) ==
    /\ mark_sent(article)
    /\ UNCHANGED <<now, tz, delivery_vars>>

\* key1 < key2 for two values of column `timestamp` under ORDER BY: NULL is the
\* smallest value, two texts compare as text.
TimestampLess(ts1, ts2) ==
    IF ts1 = NULL THEN ts2 # NULL
    ELSE IF ts2 = NULL THEN FALSE
    ELSE AwareTextLess(ts1[1], ts2[1])

\* The Article get_unsent_articles builds of a row.
RowArticle(row) ==
    [title         |-> row.title,
     url           |-> row.url,
     source        |-> row.source,
     timestamp     |-> IF row.timestamp # NULL
                       THEN Some(FromIsoFormat(row.timestamp[1])) ELSE NULL,
     content       |-> row.content,
     other_sources |-> IF row.other_sources # NULL /\ row.other_sources[1] # <<>>
                       THEN LET pieces == SplitOn(row.other_sources[1], ",")
                                trimmed == [i \in 1..Len(pieces) |-> Strip(pieces[i])]
                            IN  SelectSeq(trimmed, LAMBDA piece : piece # <<>>)
                       ELSE <<>>]

\* Only the last of those rows, as a query with LIMIT 1 would select.
UnsentRows_mutant ==
    LET rows == {i \in 1..Len(articles) :
                    ~articles[i].sent /\ articles[i].duplicate_of = NULL}
    IN  {i \in rows : \A j \in rows : j <= i}

\* The indices of the rows WHERE sent = FALSE AND duplicate_of IS NULL.
UnsentRows ==
    {i \in 1..Len(articles) : ~articles[i].sent /\ articles[i].duplicate_of = NULL}

\* The orders in which the query may return those rows: ORDER BY timestamp DESC
\* (rows of equal timestamp in any order).
UnsentOrders ==
    LET n == Cardinality(UnsentRows)
    IN  {order \in [1..n -> UnsentRows] :
            /\ \A i, j \in 1..n : i # j => order[i] # order[j]
            /\ \A i, j \in 1..n :
                 i < j => ~TimestampLess(articles[order[i]].timestamp,
                                         articles[order[j]].timestamp)}

\* The lists get_unsent_articles may return.
UnsentArticles ==
    {[k \in 1..Len(order) |-> RowArticle(articles[order[k]])] : order \in UnsentOrders}

\* get_unsent_articles
GetUnsentArticles ==
    /\ \E result \in UnsentArticles : last' = Returned("get_unsent_articles", result)
    /\ UNCHANGED <<articles, now, tz, delivery_vars>>

\* The table after DELETE FROM articles WHERE created_at < cutoff.isoformat().
DeleteOlder(cutoff) ==
    SelectSeq(articles, LAMBDA row : ~TextLess(row.created_at, IsoFormat(cutoff)))

\* cleanup_old: `days or settings.storage.keep_days`, then the DELETE.
cleanup_old(days) ==
    LET effective == IF days # NULL /\ days[1] # 0 THEN days[1] ELSE KeepDays
        cutoff    == DatetimeNow - effective * HoursPerDay
    IN  /\ articles' = DeleteOlder(cutoff)
        /\ last' = Returned("cleanup_old", NULL)

\* cleanup_old, called on its own.
CleanupOld(days) ==
    /\ cleanup_old(days)
    /\ UNCHANGED <<now, tz, delivery_vars>>

\* Stats that counts as sent only the delivered (canonical) rows.
Stats_mutant ==
    LET total == Len(articles)
        sent  == Cardinality({i \in 1..Len(articles) :
                                articles[i].sent /\ articles[i].duplicate_of = NULL})
    IN  [total     |-> total,
         sent      |-> sent,
         pending   |-> Cardinality(UnsentRows),
         by_source |-> [s \in {articles[i].source : i \in 1..Len(articles)} |->
                          Cardinality({i \in 1..Len(articles) : articles[i].source = s})]]

\* The dict get_stats returns.
Stats ==
    LET total == Len(articles)
        sent  == Cardinality({i \in 1..Len(articles) : articles[i].sent})
    IN  [total     |-> total,
         sent      |-> sent,
         pending   |-> total - sent,
         by_source |-> [s \in {articles[i].source : i \in 1..Len(articles)} |->
                          Cardinality({i \in 1..Len(articles) : articles[i].source = s})]]

\* get_stats
GetStats ==
    /\ last' = Returned("get_stats", Stats)
    /\ UNCHANGED <<articles, now, tz, delivery_vars>>

\* The retention arguments tried: the default (None), one day, two days.
CleanupDays == {NULL, Some(1), Some(2)}

\* Time passes between two calls.
TimePasses(hours) ==
    /\ now + hours <= Epoch + MaxElapsed
    /\ now' = now + hours
    /\ UNCHANGED <<articles, tz, last, delivery_vars>>

\* ------------------------------------------------------------ scrapers

\* NewsAggregator.scrapers: three scrapers, in the order of the sources.
Scrapers == 1..3

\* A task of scrape_all: not created, running, or done with what scrape()
\* returned or raised.
Task(status, result) == [status |-> status, result |-> result]

NotStarted == Task("none", <<>>)

\* ------------------------------------------------------------ delivery
\* output/telegram.py.  A duration is a whole number of ticks; a float product is
\* rounded to the tick, as Python rounds it to the nearest double.

\* Ticks in one second.
TicksPerSecond == 1000

\* The longest list handed to send_batch.
MaxBatch == 11

MIN_DELAY == 1

MAX_DELAY == 5

BATCH_SIZE == 10

\* Default of send_article's `retries` parameter.
DefaultRetries == 3

\* The seconds a RetryAfter answer may carry.
RetryAfterSeconds == {5, 30}

Min(a, b) == IF a <= b THEN a ELSE b

\* A number of seconds, in ticks.
Ticks(seconds) == seconds * TicksPerSecond

\* EaseOff that never eases.
EaseOff_mutant(d) == Max(Ticks(MIN_DELAY), d)

\* max(MIN_DELAY, delay * 0.9)
EaseOff(d) == Max(Ticks(MIN_DELAY), (d * 9) \div 10)

\* BackOff without its ceiling.
BackOff_mutant(d) == (d * 15) \div 10

\* min(MAX_DELAY, delay * 1.5)
BackOff(d) == Min(Ticks(MAX_DELAY), (d * 15) \div 10)

\* BackoffTicks that grows linearly: 2 * attempt.
BackoffTicks_mutant(k) == Ticks(2 * k)

\* 2 ** attempt seconds.
BackoffTicks(k) == Ticks(2 ^ k)

\* SKIP_PATTERNS; `t\.me/` is the literal text "t.me/", and a Cyrillic letter is
\* written as its code point.
SKIP_PATTERNS ==
    << <<"t", ".", "m", "e", "/">>,
       <<"t", "e", "l", "e", "g", "r", "a", "m">>,
       <<"U+043F", "U+0456", "U+0434", "U+043F", "U+0438", "U+0441", "U+0443",
         "U+0439", "U+0441", "U+044F">>,
       <<"U+043F", "U+0456", "U+0434", "U+043F", "U+0438", "U+0441", "U+0430",
         "U+0442", "U+0438", "U+0441", "U+044F">>,
       <<"U+043D", "U+0430", "U+0448", " ", "U+043A", "U+0430", "U+043D",
         "U+0430", "U+043B">> >>

\* re.search(pattern, text) for a pattern that is literal text.
Search(pattern, text) ==
    \E k \in 0..(Len(text) - Len(pattern)) :
        SubSeq(text, k + 1, k + Len(pattern)) = pattern

\* A URL as text: every URL of the universe is one symbol, in no pattern.
UrlText(url) == <<url>>

\* TelegramBot._should_skip
_should_skip(article) ==
    LET text == Lower(article.title \o <<" ">> \o UrlText(article.url))
    IN  \E p \in 1..Len(SKIP_PATTERNS) : Search(SKIP_PATTERNS[p], text)

\* Where a list may hold the advertisement: nowhere (0), or third.
PromoPositions == {0, 3}

\* A list of n distinct records, the one at position `promo` an advertisement.
Batch(n, promo) ==
    [k \in 1..n |->
        Article(IF k = promo THEN TitlePromo ELSE TitleFox, "w" \o ToString(k), Reuters, NULL)]

\* The lists handed to send_batch.
Batches == {Batch(n, promo) : n \in 0..MaxBatch, promo \in PromoPositions}

\* What one bot.send_message call may end with: it returns, or raises
\* RetryAfter(retry_after), or raises another TelegramError.
Outcomes ==
    {[kind |-> "ok", retry_after |-> 0], [kind |-> "TelegramError", retry_after |-> 0]}
    \cup {[kind |-> "RetryAfter", retry_after |-> n] : n \in RetryAfterSeconds}

\* asyncio.sleep, recorded.
Sleep(by, after, ticks) == [by |-> by, after |-> after, ticks |-> ticks]

NoSleep == Sleep("none", 0, 0)

NotTried == [primary |-> 0, fallback |-> 0]

\* The delivery side before any call.
DeliveryIdle ==
    /\ pc = "idle"
    /\ caller = "none"
    /\ batch = <<>>
    /\ index = 0
    /\ delay = Ticks(MIN_DELAY)
    /\ sent_count = 0
    /\ current = NULL
    /\ attempt = 0
    /\ success = FALSE
    /\ slept = NoSleep
    /\ waits = 0
    /\ tried = NotTried
    /\ attempted = <<>>
    /\ saving = <<>>
    /\ unsent = <<>>
    /\ position = 0
    /\ sent_now = 0
    /\ failed = {}
    /\ delivered = {}
    /\ fetches = [scraper \in Scrapers |-> NotStarted]
    /\ loop = "start"
    /\ cycle_count = 0

\* send_batch is called: the locals are set; an empty list returns at once,
\* otherwise send_article is called for the first record.
SendBatch(list) ==
    /\ pc \in {"idle", "returned", "raised"}
    /\ caller' = "send_batch"
    /\ batch' = list
    /\ index' = 0
    /\ sent_count' = 0
    /\ delay' = Ticks(MIN_DELAY)
    /\ waits' = 0
    /\ attempted' = <<>>
    /\ slept' = NoSleep
    /\ tried' = NotTried
    /\ attempt' = 0
    /\ success' = FALSE
    /\ IF list = <<>>
       THEN pc' = "returned" /\ current' = NULL
       ELSE pc' = "send_article" /\ current' = Some(list[1])
    /\ UNCHANGED <<dbvars, cycle_vars, token, channel_id>>

\* TelegramBot._get_bot raises ValueError.
GetBotRaises == ~token

\* send_article up to its first await: the channel check, the promo check, and
\* the first pass of the loop up to bot.send_message.
SendArticle ==
    /\ pc = "send_article"
    /\ attempted' = Append(attempted, current[1])
    /\ tried' = NotTried
    /\ attempt' = 0
    /\ IF ~channel_id
       THEN success' = FALSE /\ pc' = "article_done"
       ELSE IF _should_skip(current[1])
       THEN success' = TRUE /\ pc' = "article_done"
       ELSE IF GetBotRaises
       THEN success' = success /\ pc' = "raised"
       ELSE success' = success /\ pc' = "primary"
    /\ UNCHANGED <<dbvars, cycle_vars, token, channel_id, caller, batch, index, delay,
                   sent_count, current, slept, waits>>

\* One pass of send_article's loop from the answer of bot.send_message on:
\* return True, or sleep retry_after + 1, or (TelegramError) go to the fallback
\* on the last pass and sleep 2 ** attempt otherwise; then the next pass up to
\* its bot.send_message, or `return False` when the loop is exhausted.
Primary(outcome) ==
    /\ pc = "primary"
    /\ tried' = [tried EXCEPT !.primary = @ + 1]
    /\ CASE outcome.kind = "ok" ->
              /\ success' = TRUE
              /\ pc' = "article_done"
              /\ UNCHANGED <<attempt, slept>>
         [] outcome.kind = "RetryAfter" ->
              /\ slept' = Sleep("send_article", attempt, Ticks(outcome.retry_after + 1))
              /\ attempt' = attempt + 1
              /\ IF attempt + 1 < DefaultRetries
                 THEN success' = success /\ pc' = IF GetBotRaises THEN "raised" ELSE "primary"
                 ELSE success' = FALSE /\ pc' = "article_done"
         [] outcome.kind = "TelegramError" ->
              IF attempt = DefaultRetries - 1
              THEN /\ pc' = IF GetBotRaises THEN "raised" ELSE "fallback"
                   /\ UNCHANGED <<attempt, slept, success>>
              ELSE /\ slept' = Sleep("send_article", attempt, BackoffTicks(attempt))
                   /\ attempt' = attempt + 1
                   /\ success' = success
                   /\ pc' = IF GetBotRaises THEN "raised" ELSE "primary"
    /\ UNCHANGED <<dbvars, cycle_vars, token, channel_id, caller, batch, index, delay,
                   sent_count, current, waits, attempted>>

\* _send_fallback from the answer of its bot.send_message on: True, or False on
\* any TelegramError (RetryAfter is one).
Fallback(outcome) ==
    /\ pc = "fallback"
    /\ tried' = [tried EXCEPT !.fallback = @ + 1]
    /\ success' = (outcome.kind = "ok")
    /\ pc' = "article_done"
    /\ UNCHANGED <<dbvars, cycle_vars, token, channel_id, caller, batch, index, delay,
                   sent_count, current, attempt, slept, waits, attempted>>

\* BatchPause that tests i instead of i + 1.
BatchPause_mutant == index % BATCH_SIZE = 0

\* (i + 1) % BATCH_SIZE == 0
BatchPause == (index + 1) % BATCH_SIZE = 0

\* WaitTicks that never takes the hard pause.
WaitTicks_mutant(d) == d

\* What send_batch sleeps after a record: MAX_DELAY on a batch pause, otherwise
\* the delay d.
WaitTicks(d) == IF BatchPause THEN Ticks(MAX_DELAY) ELSE d

\* send_batch from the return of send_article on: the count and the delay are
\* updated, then the wait and the call for the next record, or the return.
BatchRecord ==
    /\ pc = "article_done"
    /\ caller = "send_batch"
    /\ sent_count' = IF success THEN sent_count + 1 ELSE sent_count
    /\ delay' = IF success THEN EaseOff(delay) ELSE BackOff(delay)
    /\ IF index < Len(batch) - 1
       THEN /\ slept' = Sleep("send_batch", index + 1, WaitTicks(delay'))
            /\ waits' = waits + 1
            /\ index' = index + 1
            /\ current' = Some(batch[index + 2])
            /\ pc' = "send_article"
       ELSE /\ pc' = "returned"
            /\ UNCHANGED <<slept, waits, index, current>>
    /\ UNCHANGED <<dbvars, cycle_vars, token, channel_id, caller, batch, attempt, success,
                   tried, attempted>>

\* ------------------------------------------------------------ the cycle
\* __main__.py: a cycle (run_cycle, as `once` runs it) and the `cleanup` command.

\* asyncio.sleep(3) of send_pending, in seconds.
PendingSleep == 3

\* How many hours the clock may advance from Epoch between cycles.
MaxCycleElapsed == 192

\* The clock advances between cycles in steps of this many hours.
CycleClockSteps == {96}

\* The record of Scraped with this URL and source.
Story(url, source) == CHOOSE a \in Scraped : a.url = url /\ a.source = source

\* What scrape_all may return in a cycle.
Feeds ==
    { <<Story("u1", Pravda), Story("u2", BBC)>>,
      <<Story("u3", BBC)>>,
      <<Story("u1", Reuters), Promo>> }

\* run_cycle starts: scrape_all has returned `feed`, process_articles begins.
RunCycle(feed) ==
    /\ pc = "idle"
    /\ pc' = "process_articles"
    /\ saving' = feed
    /\ UNCHANGED <<dbvars, token, channel_id, caller, batch, index, delay,
                   sent_count, current, attempt, success, slept, waits, tried,
                   attempted, unsent, position, sent_now, failed, delivered,
                   sched_vars>>

\* One pass of process_articles' loop: save_article for the next record.
ProcessArticle ==
    /\ pc = "process_articles"
    /\ saving # <<>>
    /\ save_article(Head(saving))
    /\ saving' = Tail(saving)
    /\ UNCHANGED <<now, tz, token, channel_id, pc, caller, batch, index, delay,
                   sent_count, current, attempt, success, slept, waits, tried,
                   attempted, unsent, position, sent_now, failed, delivered,
                   sched_vars>>

\* send_pending up to its first await: the unsent query; with nothing unsent it
\* returns 0 and the cycle is over, otherwise send_article is called for the
\* first record.
SendPending ==
    /\ pc = "process_articles"
    /\ saving = <<>>
    /\ \E result \in UnsentArticles :
         /\ last' = Returned("get_unsent_articles", result)
         /\ unsent' = result
         /\ IF result = <<>>
            THEN pc' = "idle" /\ UNCHANGED <<caller, current>>
            ELSE /\ pc' = "send_article"
                 /\ caller' = "send_pending"
                 /\ current' = Some(result[1])
    /\ position' = 0
    /\ sent_now' = 0
    /\ attempted' = <<>>
    /\ UNCHANGED <<articles, now, tz, token, channel_id, batch, index, delay,
                   sent_count, attempt, success, slept, waits, tried, saving, failed,
                   delivered, sched_vars>>

\* The send_article call that has returned delivered `current` to the channel:
\* it returned True after a bot.send_message call (one that did not raise).
Delivered == success /\ tried # NotTried

\* send_pending from the return of send_article on: mark_sent and the count on
\* True, asyncio.sleep(3), then the call for the next record or the return, with
\* which the cycle is over.
PendingRecord ==
    /\ pc = "article_done"
    /\ caller = "send_pending"
    /\ delivered' = IF Delivered THEN delivered \cup {ArticleId(current[1])}
                     ELSE delivered
    /\ IF success
       THEN /\ mark_sent(current[1])
            /\ sent_now' = sent_now + 1
            /\ failed' = failed \ {ArticleId(current[1])}
       ELSE /\ failed' = failed \cup {ArticleId(current[1])}
            /\ UNCHANGED <<articles, last, sent_now>>
    /\ slept' = Sleep("send_pending", position + 1, Ticks(PendingSleep))
    /\ position' = position + 1
    /\ IF position + 1 < Len(unsent)
       THEN pc' = "send_article" /\ current' = Some(unsent[position + 2])
       ELSE pc' = "idle" /\ current' = current
    /\ UNCHANGED <<now, tz, token, channel_id, caller, batch, index, delay,
                   sent_count, attempt, success, waits, tried, attempted, saving,
                   unsent, sched_vars>>

\* run_cycle's `except Exception`: what send_article raised ends the cycle.
CycleFailed ==
    /\ pc = "raised"
    /\ caller = "send_pending"
    /\ pc' = "idle"
    /\ failed' = failed \cup {ArticleId(current[1])}
    /\ UNCHANGED <<dbvars, token, channel_id, caller, batch, index, delay,
                   sent_count, current, attempt, success, slept, waits, tried,
                   attempted, saving, unsent, position, sent_now, delivered,
                   sched_vars>>

\* The `cleanup` command, between two cycles: db.cleanup_old().
Cleanup ==
    /\ pc = "idle"
    /\ cleanup_old(NULL)
    /\ failed' = {id \in failed : \E k \in 1..Len(articles') : articles'[k].id = id}
    /\ UNCHANGED <<now, tz, token, channel_id, pc, caller, batch, index, delay,
                   sent_count, current, attempt, success, slept, waits, tried,
                   attempted, saving, unsent, position, sent_now, delivered,
                   sched_vars>>

\* Time passes between two cycles.
CycleTimePasses(hours) ==
    /\ pc = "idle"
    /\ now + hours <= Epoch + MaxCycleElapsed
    /\ now' = now + hours
    /\ UNCHANGED <<articles, tz, last, delivery_vars>>

\* ------------------------------------------------- scrape_all, run_scheduler

\* `cycle_count % 60 == 0`: the sweep runs after every 60th cycle.
CleanupEvery == 60

\* What each scraper finds when its scrape() returns records.
SourceFeeds ==
    << <<Story("u1", Pravda)>>,
       <<Story("u2", BBC), Story("u3", BBC)>>,
       <<Story("u1", Reuters)>> >>

\* The sources are quiet (every scrape() returns no record) in so many cycles
\* from the start of run_scheduler.
QuietCycles == 58

\* run_scheduler's loop is followed for so many cycles.
MaxCycles == 61

\* What a scrape() call may end with once the sources are not quiet: it returns
\* its records, or raises an Exception; the second scraper's may also raise
\* asyncio.CancelledError (a BaseException), the third's may return nothing.
ScrapeOutcomes(scraper) ==
    IF cycle_count < QuietCycles THEN {Task("returned", <<>>)}
    ELSE { Task("returned", SourceFeeds[scraper]) }
         \cup (IF scraper < 3 THEN {Task("Exception", <<>>)} ELSE {Task("returned", <<>>)})
         \cup (IF scraper = 2 THEN {Task("CancelledError", <<>>)} ELSE {})

\* asyncio.gather(*tasks, return_exceptions=True) has returned that only waits for
\* the first task.
Gathered_mutant == \E scraper \in Scrapers : fetches[scraper].status # "running"

\* asyncio.gather(*tasks, return_exceptions=True) returns: every task is done.
Gathered == \A scraper \in Scrapers : fetches[scraper].status # "running"

\* isinstance(result, Exception)
IsException(task) == task.status = "Exception"

\* all_articles after the passes of scrape_all's for loop over the first k results.
RECURSIVE Collected(_)
Collected(k) ==
    IF k = 0 THEN <<>>
    ELSE IF IsException(fetches[k]) THEN Collected(k - 1)
    ELSE Collected(k - 1) \o fetches[k].result

\* all_articles.extend(result) raises TypeError: a result that is neither an
\* Exception nor a list.
ExtendRaises ==
    \E scraper \in Scrapers :
        ~IsException(fetches[scraper]) /\ fetches[scraper].status # "returned"

\* What is raised at this point of a cycle is caught by run_cycle's
\* `except Exception`: every call of the cycle is inside its try.
Caught(point) ==
    point \in {"scrape_all", "process_articles", "get_unsent_articles", "mark_sent"}

\* The try of run_scheduler's loop without the sweep in it.
LoopCaught_mutant(point) == point = "run_cycle"

\* What is raised at this point of run_scheduler's loop is caught by its
\* `except Exception`: run_cycle and the sweep are inside its try.
LoopCaught(point) == point \in {"run_cycle", "cleanup"}

\* The next step of process_articles after save_article raised, if it caught the
\* exception and went on.
AfterSaveRaised_mutant == "process_articles"

\* Where the cycle stands after save_article raised: process_articles has no
\* handler, the exception leaves it.
AfterSaveRaised == "raised"

\* run_scheduler's loop calls run_cycle, with new locals; scrape_all creates a
\* task per scraper.
StartCycle ==
    /\ loop = "start"
    /\ pc = "idle"
    /\ cycle_count < MaxCycles
    /\ loop' = "run_cycle"
    /\ pc' = "scrape_all"
    /\ fetches' = [scraper \in Scrapers |-> Task("running", <<>>)]
    /\ caller' = "none"
    /\ current' = NULL
    /\ attempt' = 0
    /\ success' = FALSE
    /\ slept' = NoSleep
    /\ tried' = NotTried
    /\ attempted' = <<>>
    /\ saving' = <<>>
    /\ unsent' = <<>>
    /\ position' = 0
    /\ sent_now' = 0
    /\ UNCHANGED <<dbvars, token, channel_id, batch, index, delay, sent_count,
                   waits, failed, delivered, cycle_count>>

\* A scraper's scrape() ends, the others still running or done.
Scrape(scraper) ==
    /\ pc = "scrape_all"
    /\ fetches[scraper].status = "running"
    /\ \E task \in ScrapeOutcomes(scraper) : fetches' = [fetches EXCEPT ![scraper] = task]
    /\ UNCHANGED <<dbvars, token, channel_id, pc, caller, batch, index, delay,
                   sent_count, current, attempt, success, slept, waits, tried,
                   attempted, saving, unsent, position, sent_now, failed, delivered,
                   loop, cycle_count>>

\* scrape_all from the return of gather on: the for loop over the results, then
\* process_articles is called with all_articles; or the loop raises.  The tasks
\* that are done are gone with scrape_all's locals.
Gather ==
    /\ pc = "scrape_all"
    /\ Gathered
    /\ IF ExtendRaises
       THEN pc' = "raised" /\ caller' = "scrape_all" /\ saving' = <<>>
       ELSE pc' = "process_articles" /\ caller' = caller
            /\ saving' = Collected(Len(SourceFeeds))
    /\ fetches' = [scraper \in Scrapers |->
                      IF fetches[scraper].status = "running" THEN fetches[scraper]
                      ELSE NotStarted]
    /\ UNCHANGED <<dbvars, token, channel_id, batch, index, delay,
                   sent_count, current, attempt, success, slept, waits, tried,
                   attempted, unsent, position, sent_now, failed, delivered,
                   loop, cycle_count>>

\* A pass of process_articles' loop in which save_article raises.
SaveFails(fault) ==
    /\ pc = "process_articles"
    /\ saving # <<>>
    /\ save_article_raises(Head(saving), fault)
    /\ pc' = AfterSaveRaised
    /\ IF pc' = "raised"
       THEN caller' = "process_articles" /\ saving' = saving
       ELSE caller' = caller /\ saving' = Tail(saving)
    /\ UNCHANGED <<now, tz, token, channel_id, batch, index, delay,
                   sent_count, current, attempt, success, slept, waits, tried,
                   attempted, unsent, position, sent_now, failed, delivered,
                   sched_vars>>

\* send_pending's get_unsent_articles raises.
QueryFails ==
    /\ pc = "process_articles"
    /\ saving = <<>>
    /\ last' = Raised("get_unsent_articles")
    /\ pc' = "raised"
    /\ caller' = "get_unsent_articles"
    /\ UNCHANGED <<articles, now, tz, token, channel_id, batch, index, delay,
                   sent_count, current, attempt, success, slept, waits, tried,
                   attempted, saving, unsent, position, sent_now, failed, delivered,
                   sched_vars>>

\* send_pending's mark_sent raises, after send_article returned True.
MarkFails ==
    /\ pc = "article_done"
    /\ caller = "send_pending"
    /\ success
    /\ last' = Raised("mark_sent")
    /\ pc' = "raised"
    /\ caller' = "mark_sent"
    /\ delivered' = IF Delivered THEN delivered \cup {ArticleId(current[1])}
                     ELSE delivered
    /\ failed' = failed \cup {ArticleId(current[1])}
    /\ UNCHANGED <<articles, now, tz, token, channel_id, batch, index, delay,
                   sent_count, current, attempt, success, slept, waits, tried,
                   attempted, saving, unsent, position, sent_now, sched_vars>>

\* What scrape_all, process_articles or send_pending raised reaches run_cycle:
\* caught there, the cycle is over and run_cycle returns; otherwise it reaches
\* the handler of run_scheduler's loop, or ends the loop.
CycleAborted ==
    /\ pc = "raised"
    /\ caller \in {"scrape_all", "process_articles", "get_unsent_articles", "mark_sent"}
    /\ pc' = "idle"
    /\ loop' = IF Caught(caller) THEN loop
               ELSE IF LoopCaught("run_cycle") THEN "sleep" ELSE "crashed"
    /\ UNCHANGED <<dbvars, token, channel_id, caller, batch, index, delay,
                   sent_count, current, attempt, success, slept, waits, tried,
                   attempted, saving, unsent, position, sent_now, failed, delivered,
                   fetches, cycle_count>>

\* run_scheduler from the return of run_cycle on: the count, the sweep after
\* every 60th cycle (it may raise), and the interval wait begins.
CycleReturned(fault) ==
    /\ loop = "run_cycle"
    /\ pc = "idle"
    /\ cycle_count' = cycle_count + 1
    /\ IF cycle_count' % CleanupEvery # 0
       THEN /\ ~fault
            /\ loop' = "sleep"
            /\ UNCHANGED <<articles, last, failed>>
       ELSE IF fault
       THEN /\ last' = Raised("cleanup_old")
            /\ loop' = IF LoopCaught("cleanup") THEN "sleep" ELSE "crashed"
            /\ UNCHANGED <<articles, failed>>
       ELSE /\ cleanup_old(NULL)
            /\ failed' = {id \in failed : \E k \in 1..Len(articles') : articles'[k].id = id}
            /\ loop' = "sleep"
    /\ UNCHANGED <<now, tz, token, channel_id, pc, caller, batch, index, delay,
                   sent_count, current, attempt, success, slept, waits, tried,
                   attempted, saving, unsent, position, sent_now, delivered, fetches>>

\* asyncio.sleep(interval * 60) returns.  The interval (10 minutes) is shorter
\* than the unit of the clock, and over the cycles followed the clock stands.
IntervalElapsed ==
    /\ loop = "sleep"
    /\ loop' = "start"
    /\ UNCHANGED <<articles, now, tz, last, token, channel_id, pc, caller, batch, index,
                   delay, sent_count, current, attempt, success, slept, waits, tried,
                   attempted, saving, unsent, position, sent_now, failed, delivered,
                   fetches, cycle_count>>

\* ------------------------------------------------------------ the system

Init ==
    /\ articles = <<>>
    /\ now = Epoch
    /\ tz \in TZOffsets
    /\ last = Returned("__init__", NULL)
    /\ token = TRUE
    /\ channel_id = TRUE
    /\ DeliveryIdle

Next ==
    \/ \E article \in Scraped : SaveArticle(article)
    \/ \E article \in Scraped : MarkSent(article)
    \/ GetUnsentArticles
    \/ \E days \in CleanupDays : CleanupOld(days)
    \/ GetStats
    \/ \E hours \in ClockSteps : TimePasses(hours)

Spec == Init /\ [][Next]_vars

\* The delivery side alone: the store stays empty, send_batch is called again and
\* again with any list.
SendInit ==
    /\ articles = <<>>
    /\ now = Epoch
    /\ tz = 0
    /\ last = Returned("__init__", NULL)
    /\ token \in BOOLEAN
    /\ channel_id \in BOOLEAN
    /\ DeliveryIdle

SendNext ==
    \/ \E list \in Batches : SendBatch(list)
    \/ SendArticle
    \/ \E outcome \in Outcomes : Primary(outcome)
    \/ \E outcome \in Outcomes : Fallback(outcome)
    \/ BatchRecord

SendSpec == SendInit /\ [][SendNext]_vars

\* The delivery side with every awaited call answered in the end.
SendFairSpec == SendSpec /\ WF_vars(SendNext)

\* Cycles: run_cycle again and again, the `cleanup` command and the passing of
\* time between them, on a host in UTC.
CycleInit ==
    /\ articles = <<>>
    /\ now = Epoch
    /\ tz = 0
    /\ last = Returned("__init__", NULL)
    /\ token \in BOOLEAN
    /\ channel_id \in BOOLEAN
    /\ DeliveryIdle

CycleNext ==
    \/ \E feed \in Feeds : RunCycle(feed)
    \/ ProcessArticle
    \/ SendPending
    \/ SendArticle
    \/ \E outcome \in Outcomes : Primary(outcome)
    \/ \E outcome \in Outcomes : Fallback(outcome)
    \/ PendingRecord
    \/ CycleFailed
    \/ Cleanup
    \/ \E hours \in CycleClockSteps : CycleTimePasses(hours)

CycleSpec == CycleInit /\ [][CycleNext]_vars

\* The scheduler: run_scheduler's loop on a host in UTC, with scrapers, store and
\* channel that may fail.
SchedInit ==
    /\ articles = <<>>
    /\ now = Epoch
    /\ tz = 0
    /\ last = Returned("__init__", NULL)
    /\ token \in BOOLEAN
    /\ channel_id = TRUE
    /\ DeliveryIdle

\* What a bot.send_message call of the scheduler's cycles may end with.
SchedOutcomes == {outcome \in Outcomes : outcome.kind # "RetryAfter"}

SchedNext ==
    \/ StartCycle
    \/ \E scraper \in Scrapers : Scrape(scraper)
    \/ Gather
    \/ ProcessArticle
    \/ \E fault \in SaveFaults : SaveFails(fault)
    \/ SendPending
    \/ QueryFails
    \/ SendArticle
    \/ \E outcome \in SchedOutcomes : Primary(outcome)
    \/ \E outcome \in SchedOutcomes : Fallback(outcome)
    \/ PendingRecord
    \/ MarkFails
    \/ CycleFailed
    \/ CycleAborted
    \/ \E fault \in BOOLEAN : CycleReturned(fault)
    \/ IntervalElapsed

SchedSpec == SchedInit /\ [][SchedNext]_vars

\* The scheduler with every awaited call answered in the end.
SchedFairSpec == SchedSpec /\ WF_vars(SchedNext)

\* The candidates of find_similar: the two longer reports, the short report of
\* the same event and an unrelated record.
Candidates ==
    Reports \cup {a \in Scraped : a.title \in {TitleStrikes, TitleFox}}

\* The store filled by save_article, find_similar called at any point.
FindNext ==
    \/ \E article \in Candidates : SaveArticle(article)
    \/ \E article \in Candidates : FindSimilar(article)
    \/ \E hours \in ClockSteps : TimePasses(hours)

FindSpec == Init /\ [][FindNext]_vars

\* ------------------------------------------------------------ the claims

\* The ids of the stored rows.
StoredIds == {articles[i].id : i \in 1..Len(articles)}

\* The UTC hour at which a row was created, read back from its created_at.
CreatedHour(row) == row.created_at[1] * HoursPerDay + row.created_at[3]

\* How many hours ago a row was created.
Age(row) == now - CreatedHour(row)

\* The similarity of an article's title and a row's title.
TitleSimilarity(article, row) ==
    Similarity[<<NormalizedTitles[article.title], NormalizedTitles[row.title]>>]

\* The indices of the rows whose title is similar to an article's.
SimilarRows(article) ==
    {i \in 1..Len(articles) :
        TitleSimilarity(article, articles[i]) >= SIMILARITY_THRESHOLD}

\* The source names listed in a row's other_sources.
OtherSources(row) == RowArticle(row).other_sources

\* The row a save_article call has appended.
Appended == articles'[Len(articles')]

\* C1: idempotent ingestion.  The store never holds two rows of one id, and a
\* save_article call for a record whose id is already stored returns False and
\* leaves the table exactly as it was.
C1_IdempotentIngestion ==
    /\ articles = <<>>
    /\ [][ /\ \A i, j \in 1..Len(articles') :
                articles'[i].id = articles'[j].id => i = j
           /\ \A article \in Scraped :
                (ArticleId(article) \in StoredIds /\ SaveArticle(article))
                    => (SaveReturned(FALSE)' /\ articles' = articles) ]_vars

\* C1's case: a save of a stored id has returned False (the only row is canonical,
\* so the False is not that of a duplicate).
C1_Witness ==
    /\ SaveReturned(FALSE)
    /\ Len(articles) = 1
    /\ articles[1].duplicate_of = NULL

\* C2: a row with a duplicate_of is sent from its insertion on, and no list
\* get_unsent_articles can return holds it.
C2_DuplicatesAreSuppressed ==
    \A i \in 1..Len(articles) :
        articles[i].duplicate_of # NULL =>
            /\ articles[i].sent
            /\ \A result \in UnsentArticles :
                 \A k \in 1..Len(result) : result[k].url # articles[i].url

\* C2's case: a duplicate-linked row is stored beside an unsent canonical row.
C2_Witness ==
    /\ \E i \in 1..Len(articles) : articles[i].duplicate_of # NULL
    /\ \E result \in UnsentArticles : Len(result) >= 1

\* C3 (as claimed): a save_article of an unstored record that has a similar
\* canonical row created within the last 24 hours stores the record as a sent
\* duplicate of such a row, adds its source to that row's other_sources and
\* returns False.
C3_DuplicateWithinWindow ==
    [][ \A article \in Scraped :
          LET matches == {i \in SimilarRows(article) :
                             /\ articles[i].duplicate_of = NULL
                             /\ Age(articles[i]) < DefaultHours}
          IN  (/\ ArticleId(article) \notin StoredIds
               /\ matches # {}
               /\ SaveArticle(article))
              => /\ SaveReturned(FALSE)'
                 /\ Len(articles') = Len(articles) + 1
                 /\ Appended.id = ArticleId(article)
                 /\ Appended.sent
                 /\ \E i \in matches :
                      /\ Appended.duplicate_of = Some(articles[i].id)
                      /\ OtherSources(articles'[i]) =
                            Append(OtherSources(articles[i]), article.source) ]_vars

\* C4 (as claimed): no source name is listed twice in a canonical row's
\* other_sources.
C4_NoRepeatedSource ==
    \A i \in 1..Len(articles) :
        articles[i].duplicate_of = NULL =>
            \A j, k \in 1..Len(OtherSources(articles[i])) :
                OtherSources(articles[i])[j] = OtherSources(articles[i])[k] => j = k

\* find_similar returns no id of a row that has a duplicate_of.
FindSimilarIsCanonical ==
    \A article \in Scraped :
        LET similar == find_similar(article, DefaultHours)
        IN  similar # NULL =>
                \A i \in 1..Len(articles) :
                    articles[i].id = similar[1][1] => articles[i].duplicate_of = NULL

\* C5 (as claimed): whenever a row names a stored row as its duplicate_of, that
\* row has no duplicate_of itself; and find_similar returns no id of a row that
\* has one.
C5_NeverChain ==
    /\ \A i, j \in 1..Len(articles) :
         articles[i].duplicate_of = Some(articles[j].id)
            => articles[j].duplicate_of = NULL
    /\ FindSimilarIsCanonical

\* C6 (as claimed): when every stored row similar to an unstored record was
\* created more than 24 hours ago, save_article stores the record as a canonical,
\* unsent row and returns True.
C6_WindowBoundary ==
    [][ \A article \in Scraped :
          (/\ ArticleId(article) \notin StoredIds
           /\ SimilarRows(article) # {}
           /\ \A i \in SimilarRows(article) : Age(articles[i]) > DefaultHours
           /\ SaveArticle(article))
          => /\ SaveReturned(TRUE)'
             /\ Len(articles') = Len(articles) + 1
             /\ Appended.id = ArticleId(article)
             /\ Appended.duplicate_of = NULL
             /\ ~Appended.sent ]_vars

\* C7 (as claimed): every list get_unsent_articles can return holds exactly the
\* unsent canonical rows, each once and with its other_sources, by descending
\* timestamp, the rows without a timestamp all at one end.
C7_UnsentQuery ==
    \A result \in UnsentArticles :
        /\ Len(result) = Cardinality(UnsentRows)
        /\ \A i \in UnsentRows :
             \E k \in 1..Len(result) :
                /\ result[k] = RowArticle(articles[i])
                /\ \A m \in 1..Len(result) : result[m].url = articles[i].url => m = k
        /\ \A j, k \in 1..Len(result) :
             (j < k /\ result[j].timestamp # NULL /\ result[k].timestamp # NULL)
                => Instant(result[j].timestamp[1]) >= Instant(result[k].timestamp[1])
        /\ \/ \A j, k \in 1..Len(result) :
                (j < k /\ result[j].timestamp = NULL) => result[k].timestamp = NULL
           \/ \A j, k \in 1..Len(result) :
                (j < k /\ result[k].timestamp = NULL) => result[j].timestamp = NULL

\* C8: mark_sent sets sent on the row of the article's id and changes nothing
\* else; on a row already sent, or an id not stored, it changes nothing at all.
C8_MarkSentFrame ==
    [][ \A article \in Scraped :
          MarkSent(article)
          => /\ Len(articles') = Len(articles)
             /\ \A i \in 1..Len(articles) :
                  /\ articles[i].id = ArticleId(article)
                        => articles'[i] = [articles[i] EXCEPT !.sent = TRUE]
                  /\ articles[i].id # ArticleId(article)
                        => articles'[i] = articles[i]
             /\ (\A i \in 1..Len(articles) :
                    articles[i].id = ArticleId(article) => articles[i].sent)
                  => articles' = articles ]_vars

\* C8's case: mark_sent has marked a canonical row while another row stays unsent.
C8_Witness ==
    /\ last.op = "mark_sent"
    /\ \E i, j \in 1..Len(articles) :
         /\ articles[i].duplicate_of = NULL /\ articles[i].sent
         /\ ~articles[j].sent

\* C9 (as claimed): cleanup_old(days) deletes every row older than the retention
\* and keeps every row younger than it.
C9_Retention ==
    [][ \A days \in CleanupDays :
          CleanupOld(days)
          => LET retention == IF days = NULL THEN KeepDays ELSE days[1]
             IN  \A i \in 1..Len(articles) :
                    /\ Age(articles[i]) > retention * HoursPerDay
                          => articles[i].id \notin {articles'[j].id : j \in 1..Len(articles')}
                    /\ Age(articles[i]) < retention * HoursPerDay
                          => \E j \in 1..Len(articles') : articles'[j] = articles[i] ]_vars

\* total == sent + pending, pending >= 0, total the number of rows, sent the
\* number of sent rows.
ConsistentStats(stats) ==
    /\ stats.total = stats.sent + stats.pending
    /\ stats.pending >= 0
    /\ stats.total = Len(articles)
    /\ stats.sent = Cardinality({i \in 1..Len(articles) : articles[i].sent})

\* C10: in every reachable state get_stats returns total == sent + pending with
\* pending >= 0, total the number of rows and sent the number of sent rows.
C10_StatsConsistent ==
    /\ ConsistentStats(Stats)
    /\ last.op = "get_stats" => ConsistentStats(last.value)

\* C10's case: get_stats has counted a store that holds a sent duplicate, a sent
\* canonical row and a pending row.
C10_Witness ==
    /\ last.op = "get_stats"
    /\ last.value.pending >= 1
    /\ \E i, j \in 1..Len(articles) :
         /\ articles[i].duplicate_of # NULL
         /\ articles[j].duplicate_of = NULL /\ articles[j].sent

\* ------------------------------------------------- the claims on delivery

\* A send_batch call is under way or over.
InSendBatch == caller = "send_batch"

\* C11: a send_batch call starts with delay = MIN_DELAY; delay stays within
\* [MIN_DELAY, MAX_DELAY]; a record that succeeded sets it to
\* max(MIN_DELAY, delay * 0.9), one that failed to min(MAX_DELAY, delay * 1.5).
C11_DelayBounded ==
    /\ [](Ticks(MIN_DELAY) <= delay /\ delay <= Ticks(MAX_DELAY))
    /\ [][ (\E list \in Batches : SendBatch(list)) => delay' = Ticks(MIN_DELAY) ]_vars
    /\ [][ BatchRecord =>
              delay' = IF success
                       THEN Max(Ticks(MIN_DELAY), (9 * delay) \div 10)
                       ELSE Min(Ticks(MAX_DELAY), (3 * delay) \div 2) ]_vars

\* C11's case: several records in, after successes and failures, delay stands
\* strictly between the two limits.
C11_Witness ==
    /\ InSendBatch
    /\ index >= 3
    /\ 0 < sent_count /\ sent_count < index
    /\ Ticks(MIN_DELAY) < delay /\ delay < Ticks(MAX_DELAY)

\* C12: a failed record strictly increases delay while it is below MAX_DELAY and
\* never takes it above MAX_DELAY; a successful record strictly decreases it
\* while it is above MIN_DELAY and never takes it below MIN_DELAY.  Holding at
\* every record, it holds along any three consecutive ones.
C12_PacerBackoff ==
    [][ BatchRecord =>
          IF success
          THEN /\ delay > Ticks(MIN_DELAY) => delay' < delay
               /\ delay' >= Ticks(MIN_DELAY)
          ELSE /\ delay < Ticks(MAX_DELAY) => delay' > delay
               /\ delay' <= Ticks(MAX_DELAY) ]_vars

\* C12's case: the first three records have all failed, each raising delay, which
\* is still below MAX_DELAY.
C12_Witness ==
    /\ InSendBatch
    /\ pc = "send_article"
    /\ index = 3
    /\ sent_count = 0
    /\ Ticks(MIN_DELAY) < delay /\ delay < Ticks(MAX_DELAY)

\* A send_batch call has returned.
BatchReturned == InSendBatch /\ pc = "returned"

\* C13 (as claimed): a send_batch call over exactly BATCH_SIZE records ends with
\* a pause of MAX_DELAY after the last, the BATCH_SIZE-th, record.
C13_PauseAfterTenth ==
    (BatchReturned /\ Len(batch) = BATCH_SIZE)
        => slept = Sleep("send_batch", BATCH_SIZE, Ticks(MAX_DELAY))

\* C13 (amended): a send_batch call over exactly BATCH_SIZE records sleeps after
\* each of its records but the last, BATCH_SIZE - 1 times, each time for the
\* current delay, and not at all after the BATCH_SIZE-th; in a longer list the
\* sleep after the BATCH_SIZE-th record is MAX_DELAY whatever the delay.
C13_NoPauseAfterLast ==
    /\ [](BatchReturned /\ Len(batch) = BATCH_SIZE
            => waits = BATCH_SIZE - 1 /\ slept.after < BATCH_SIZE)
    /\ [][ (BatchRecord /\ Len(batch) = BATCH_SIZE) =>
              IF index + 1 < BATCH_SIZE
              THEN slept' = Sleep("send_batch", index + 1, delay')
              ELSE slept' = slept /\ waits' = waits /\ pc' = "returned" ]_vars
    /\ [][ (BatchRecord /\ Len(batch) > BATCH_SIZE /\ index + 1 = BATCH_SIZE)
              => slept' = Sleep("send_batch", BATCH_SIZE, Ticks(MAX_DELAY)) ]_vars

\* C13's case: a call over exactly BATCH_SIZE records, all delivered, has
\* returned.
C13_Witness ==
    /\ BatchReturned
    /\ Len(batch) = BATCH_SIZE
    /\ sent_count = BATCH_SIZE

\* C14: send_batch sleeps once after each record but the last (never for an
\* empty list); after the k-th record it sleeps MAX_DELAY when k is a multiple of
\* BATCH_SIZE, and otherwise the delay as the k-th record's outcome has set it.
C14_WaitsBetweenRecords ==
    /\ [](BatchReturned => waits = IF batch = <<>> THEN 0 ELSE Len(batch) - 1)
    /\ [][ BatchRecord =>
              IF index + 1 < Len(batch)
              THEN /\ waits' = waits + 1
                   /\ slept' = Sleep("send_batch", index + 1,
                                     IF (index + 1) % BATCH_SIZE = 0
                                     THEN Ticks(MAX_DELAY) ELSE delay')
              ELSE waits' = waits /\ slept' = slept ]_vars
    /\ [][ (waits' # waits \/ (slept'.by = "send_batch" /\ slept' # slept))
              => (BatchRecord \/ \E list \in Batches : SendBatch(list)) ]_vars

\* C14's case: a call over more than BATCH_SIZE records has returned after a
\* failure, so that a batch pause and a raised delay have both been slept.
C14_Witness ==
    /\ BatchReturned
    /\ Len(batch) = BATCH_SIZE + 1
    /\ waits = BATCH_SIZE
    /\ sent_count < Len(batch)

\* C15 (as claimed): whatever the deliveries do, a send_batch call that is over
\* has returned, with send_article called once for every record in order, and
\* has counted no more than the records.
C15_BatchNeverAborts ==
    (InSendBatch /\ pc \in {"returned", "raised"})
        => /\ pc = "returned"
           /\ attempted = batch
           /\ sent_count <= Len(batch)

\* A send_article call is waiting for an answer of bot.send_message.
InSendArticle == pc \in {"primary", "fallback"}

\* C16: one send_article call makes at most DefaultRetries primary attempts;
\* after a TelegramError that is not a RetryAfter on a pass `attempt` that is not
\* the last, it sleeps 2 ** attempt seconds and tries again; and it always comes
\* to an end.
C16_BoundedRetries ==
    /\ [](tried.primary <= DefaultRetries)
    /\ [][ \A outcome \in Outcomes :
              (/\ Primary(outcome)
               /\ outcome.kind = "TelegramError"
               /\ attempt < DefaultRetries - 1)
              => /\ slept' = Sleep("send_article", attempt, Ticks(2 ^ attempt))
                 /\ attempt' = attempt + 1
                 /\ pc' = "primary" ]_vars
    /\ InSendArticle ~> ~InSendArticle

\* C16's case: the third primary attempt is awaited after two TelegramErrors, the
\* last sleep being the 2 ** 1 seconds after the second.
C16_Witness ==
    /\ pc = "primary"
    /\ attempt = DefaultRetries - 1
    /\ tried.primary = DefaultRetries - 1
    /\ slept = Sleep("send_article", 1, Ticks(2))

\* C17 (as claimed): after a RetryAfter answer to a primary attempt, send_article
\* sleeps retry_after + 1 seconds, not the exponential wait, and then makes
\* another attempt.
C17_RetryAfterPreempts ==
    [][ \A outcome \in Outcomes :
          (Primary(outcome) /\ outcome.kind = "RetryAfter")
          => /\ slept' = Sleep("send_article", attempt, Ticks(outcome.retry_after + 1))
             /\ pc' = "primary"
             /\ attempt' = attempt + 1 ]_vars

\* C18 (as claimed): a send_article call that has called bot.send_message and
\* has returned either was answered by a primary attempt that succeeded, with no
\* fallback attempted, or has attempted the fallback exactly once, after
\* DefaultRetries failed primary attempts, and returned its result.
C18_FallbackAfterFailures ==
    (pc = "article_done" /\ tried.primary >= 1)
        => \/ tried.fallback = 0 /\ success
           \/ tried.fallback = 1 /\ tried.primary = DefaultRetries

\* C20 (as claimed): with the channel id or the bot token not set, send_article
\* raises nothing, calls bot.send_message never, and returns False.
C20_UnconfiguredIsNoOp ==
    (~channel_id \/ ~token)
        => /\ pc # "raised"
           /\ tried = NotTried
           /\ pc = "article_done" => ~success

\* C19: a canonical record whose delivery has finally failed in a cycle stays
\* stored with sent = FALSE as a canonical record, and every later
\* get_unsent_articles of send_pending returns it, until a delivery of it
\* succeeds or cleanup_old deletes it (`failed` holds the ids of those records).
C19_FailedStaysPending ==
    /\ [](\A id \in failed :
            \E k \in 1..Len(articles) :
                /\ articles[k].id = id
                /\ ~articles[k].sent
                /\ articles[k].duplicate_of = NULL)
    /\ [][SendPending =>
            \A id \in failed :
                \E k \in 1..Len(unsent') : ArticleId(unsent'[k]) = id]_vars

\* A later cycle delivers again a record whose delivery failed before, with
\* another failed record behind it in the list.
C19_Witness ==
    /\ caller = "send_pending"
    /\ pc = "send_article"
    /\ position = 0
    /\ Len(unsent) > 1
    /\ \A k \in 1..Len(unsent) : ArticleId(unsent[k]) \in failed

\* ------------------------------------------------ the claims on the cycle

\* The records of the first k scrapers whose scrape() did not raise, in order.
RECURSIVE RecordsOfReturned(_)
RecordsOfReturned(k) ==
    IF k = 0 THEN <<>>
    ELSE RecordsOfReturned(k - 1)
         \o (IF fetches[k].status = "returned" THEN fetches[k].result ELSE <<>>)

\* gather has returned and scrape_all goes through the results.
GatherReturns == pc = "scrape_all" /\ pc' # "scrape_all"

\* C21: a scraper whose scrape() raises contributes no record and does not end
\* the cycle: scrape_all hands process_articles the records of the scrapers that
\* did not raise, in the order of the scrapers, and process_articles passes
\* every one of them to save_article before the cycle goes on to delivery.
C21_FailedAdapterTolerated ==
    /\ [][GatherReturns =>
            /\ pc' = "process_articles"
            /\ saving' = RecordsOfReturned(Len(SourceFeeds))]_vars
    /\ [][pc = "process_articles" /\ pc' \notin {"process_articles", "raised"}
            => saving = <<>>]_vars

\* C22: no failure of a cycle ends run_scheduler's loop: whatever a step of a
\* cycle raises (scrape, save, unsent query, delivery, mark_sent) is caught and
\* the interval wait follows, a sweep that raises is followed by the interval
\* wait too, and after the wait the next cycle starts (as long as cycles are
\* followed).
C22_LoopSurvives ==
    /\ [](loop # "crashed")
    /\ (pc = "raised") ~> (loop = "sleep")
    /\ [][last'.op = "cleanup_old raised" /\ last.op # "cleanup_old raised"
            => loop' = "sleep"]_vars
    /\ (loop = "sleep" /\ cycle_count < MaxCycles) ~> (pc = "scrape_all")

\* The cycle after a sweep that raised has started.
C22_Witness ==
    /\ last.op = "cleanup_old raised"
    /\ pc = "scrape_all"
    /\ cycle_count = CleanupEvery

\* The store or the channel is used in this step.
StoreOrChannelUsed ==
    \/ articles' # articles
    \/ last' # last
    \/ tried'.primary > tried.primary
    \/ tried'.fallback > tried.fallback

\* C23: cycles are strictly sequential.  A cycle starts only from the interval
\* wait's end, when the previous cycle has returned and nothing of it is running;
\* the store and the channel are used only by the one cycle that is running or by
\* the sweep when it has returned; and no scraper's fetch is still running when
\* process_articles starts saving.
C23_CyclesSequential ==
    /\ [][pc' = "scrape_all" /\ pc # "scrape_all"
            => /\ pc = "idle"
               /\ loop = "start"
               /\ \A scraper \in Scrapers : fetches[scraper].status # "running"]_vars
    /\ [][StoreOrChannelUsed => loop = "run_cycle"]_vars
    /\ [](pc \notin {"idle", "scrape_all"}
            => \A scraper \in Scrapers : fetches[scraper].status # "running")

\* The first save_article of a cycle whose three scrapers all returned records is
\* about to run, after an earlier cycle has delivered.
C23_Witness ==
    /\ pc = "process_articles"
    /\ Len(saving) = 4
    /\ delivered # {}

\* A cycle is delivering: send_pending has called for a record's delivery and
\* has not returned.
CycleDelivering ==
    pc \in {"send_article", "primary", "fallback", "article_done"} /\ caller # "none"

\* C24: a cycle saves every scraped record, then queries the unsent records
\* once, then delivers that list through the Delivery Pacer (send_batch: the
\* wait between two records is the adaptive delay, or MAX_DELAY after every
\* 10th record, and there is none after the last), then marks the delivered
\* records sent.
C24_PhasesInOrder ==
    /\ [][SendPending => saving = <<>>]_vars
    /\ [](CycleDelivering => caller = "send_batch")
    /\ [][slept' # slept /\ slept'.by # "send_article"
            => /\ slept'.by = "send_batch"
               /\ slept'.ticks \in {delay', Ticks(MAX_DELAY)}
               /\ pc' = "send_article"]_vars

\* save_article raises in this step.
SaveRaises == pc = "process_articles" /\ last'.op = "save_article raised"

\* C25: save_article is atomic on the duplicate path: when a step of it fails,
\* neither the duplicate-linked row nor the change of the original row's
\* other_sources is visible afterwards, and when a duplicate-linked row becomes
\* visible, the original row's other_sources has its source appended in the
\* same step.
C25_SaveAtomic ==
    /\ [][SaveRaises => articles' = articles]_vars
    /\ [][Len(articles') = Len(articles) + 1 /\ Appended.duplicate_of # NULL
            => \E k \in 1..Len(articles) :
                  /\ articles[k].id = Appended.duplicate_of[1]
                  /\ OtherSources(articles'[k])
                        = Append(OtherSources(articles[k]), Appended.source)]_vars

\* save_article has raised for a record that has a similar row in the window,
\* and the record is not stored.
C25_Witness ==
    /\ pc = "raised"
    /\ last.op = "save_article raised"
    /\ saving # <<>>
    /\ ~article_exists(Head(saving))
    /\ find_similar(Head(saving), DefaultHours) # NULL

\* The cycle that is running is one in which save_article has raised.
SaveFailedCycle == loop = "run_cycle" /\ pc = "raised" /\ caller = "process_articles"

\* C26: a storage failure raised by save_article is not swallowed and ends the
\* cycle: it leaves process_articles with the failing record and the records
\* after it unsaved, no record is stored and no delivery is attempted in the rest
\* of that cycle, the interval wait follows, and the next cycle starts (as long
\* as cycles are followed).
C26_StorageFailureEndsCycle ==
    /\ [][SaveRaises => pc' = "raised" /\ saving' = saving]_vars
    /\ [][SaveFailedCycle
            => /\ StoredIds' \subseteq StoredIds
               /\ tried' = tried
               /\ saving' = saving
               /\ pc' = "idle"]_vars
    /\ SaveFailedCycle ~> (loop = "sleep")
    /\ (loop = "sleep" /\ cycle_count < MaxCycles) ~> (pc = "scrape_all")

\* save_article has raised on a record that is neither the first nor the last
\* of the cycle: a record is stored, others remain.
C26_Witness ==
    /\ SaveFailedCycle
    /\ last.op = "save_article raised"
    /\ Len(saving) > 1
    /\ articles # <<>>

\* The scores of the candidate against the rows of find_similar's window.
WindowScores(article) ==
    LET rows == WindowRows(DefaultHours)
    IN  [k \in 1..Len(rows) |-> RowSimilarity(NormalizedTitles[article.title], rows[k])]

\* C27: find_similar returns the id and the score of the first row, in the scan
\* order of its window query, whose score reaches 75, whatever the scores of
\* the rows after it; it returns None exactly when no row of the window reaches 75.
C27_FirstMatchWins ==
    [][\A article \in Candidates :
          FindSimilar(article)
            => LET rows   == WindowRows(DefaultHours)
                   scores == WindowScores(article)
               IN  IF \E k \in 1..Len(rows) : scores[k] >= 75
                   THEN \E k \in 1..Len(rows) :
                           /\ scores[k] >= 75
                           /\ \A j \in 1..(k - 1) : scores[j] < 75
                           /\ last'.value = Some(<<rows[k].id, scores[k]>>)
                   ELSE last'.value = NULL]_vars

\* find_similar has returned a row although a later row of the window has a
\* higher score.
C27_Witness ==
    /\ last.op = "find_similar"
    /\ last.value # NULL
    /\ \E article \in Candidates :
          /\ last.value = find_similar(article, DefaultHours)
          /\ \E k \in 1..Len(WindowRows(DefaultHours)) :
                /\ WindowScores(article)[k] > last.value[1][2]
                /\ WindowRows(DefaultHours)[k].id # last.value[1][1]

\* C28: whatever the store is asked to do, a row that stays in the table keeps
\* its duplicate_of, and keeps sent once it is true; a row leaves the table
\* only in a call of cleanup_old.
C28_SentMonotonic ==
    [][\A k \in 1..Len(articles) :
          LET kept == {j \in 1..Len(articles') : articles'[j].id = articles[k].id}
          IN  /\ \A j \in kept :
                    /\ articles'[j].duplicate_of = articles[k].duplicate_of
                    /\ articles[k].sent => articles'[j].sent
              /\ kept = {} => last'.op = "cleanup_old"]_vars

\* mark_sent has returned with a delivered canonical row, a linked row and a row
\* still to deliver in the table.
C28_Witness ==
    /\ last.op = "mark_sent"
    /\ \E k \in 1..Len(articles) : articles[k].sent /\ articles[k].duplicate_of = NULL
    /\ \E k \in 1..Len(articles) : articles[k].duplicate_of # NULL
    /\ \E k \in 1..Len(articles) : ~articles[k].sent

\* C29: with no store operation failing and the process running on, no record
\* is delivered to the channel a second time, in whatever cycle: mark_sent
\* follows each delivery at once, before the next record's delivery starts.
C29_AtMostOnce ==
    /\ [][PendingRecord /\ Delivered => ArticleId(current[1]) \notin delivered]_vars
    /\ [][PendingRecord /\ Delivered
            => \A k \in 1..Len(articles) :
                  articles[k].id = ArticleId(current[1]) => articles'[k].sent]_vars

\* C30: a canonical row goes from unsent to sent only in the step that follows a
\* successful bot.send_message call (primary or fallback) for that very record,
\* whatever its title or URL.
C30_SentOnlyAfterDelivery ==
    [][\A k \in 1..Len(articles) : \A j \in 1..Len(articles') :
          /\ articles'[j].id = articles[k].id
          /\ articles[k].duplicate_of = NULL
          /\ ~articles[k].sent
          /\ articles'[j].sent
          => /\ Delivered
             /\ ArticleId(current[1]) = articles[k].id]_vars

====
